---- MODULE Spec2Model ----
(***************************************************************************)
(* A model of SEDkit/synphot.py: the Bandpass class (constructor and the   *)
(* wave_units setter), mag2flux, and the mag_table batch pipeline.         *)
(*                                                                         *)
(* Python strings are sequences of one-character strings, so that split,   *)
(* endswith, dirname and tuple unpacking are computed as Python computes   *)
(* them.  Real numbers are decimal numbers m * 10^e or NaN (feh, logg and  *)
(* magnitudes are held times ten).  The external collaborators (pysynphot  *)
(* catalog, file system, filter registry) are inputs fixed when the call   *)
(* is made.                                                                *)
(***************************************************************************)
EXTENDS Integers, Sequences, FiniteSets, TLC

\* ------------------------------------------------------------------ bounds
\* longest explicit grid handed to mag_table
MaxGrid == 3

\* ------------------------------------------------- Python string helpers
\* c in s
Contains(s, c) == \E i \in 1..Len(s) : s[i] = c

\* s.endswith(suf)
EndsWith(s, suf) ==
    /\ Len(suf) <= Len(s)
    /\ SubSeq(s, Len(s) - Len(suf) + 1, Len(s)) = suf

\* s.split(c) for a one-character separator
RECURSIVE Split(_, _)
Split(s, c) ==
    IF ~Contains(s, c) THEN << s >>
    ELSE LET i == CHOOSE k \in 1..Len(s) :
                     s[k] = c /\ \A j \in 1..(k - 1) : s[j] # c
         IN  << SubSeq(s, 1, i - 1) >> \o Split(SubSeq(s, i + 1, Len(s)), c)

\* index of the last occurrence of c in s, 0 when absent (s.rfind(c) + 1)
RFind1(s, c) ==
    IF ~Contains(s, c) THEN 0
    ELSE CHOOSE k \in 1..Len(s) :
             s[k] = c /\ \A j \in (k + 1)..Len(s) : s[j] # c

\* s.rstrip(c)
RECURSIVE RStrip(_, _)
RStrip(s, c) ==
    IF Len(s) > 0 /\ s[Len(s)] = c THEN RStrip(SubSeq(s, 1, Len(s) - 1), c)
    ELSE s

\* posixpath.dirname
Dirname(p) ==
    LET head == SubSeq(p, 1, RFind1(p, "/"))
    IN  IF head # << >> /\ \E i \in 1..Len(head) : head[i] # "/"
        THEN RStrip(head, "/")
        ELSE head

\* the literal '.csv'
CsvExt == << ".", "c", "s", "v" >>

\* ------------------------------------------------------- the file system
\* paths that exist when mag_table runs: the current directory, a data
\* directory, an empty directory, a directory of filter files, a regular file
CurDir == << "." >>
DataDir == << "/", "d" >>
EmptyDir == << "/", "e" >>
FilterDir == << "/", "f" >>
BadFilterDir == << "/", "g" >>
RegularFile == << "/", "d", "/", "r", ".", "t" >>

Directories == { CurDir, DataDir, EmptyDir, FilterDir, BadFilterDir }

ExistingPaths == Directories \cup { RegularFile }

\* os.path.exists
PathExists(p) == p \in ExistingPaths

\* glob.glob(os.path.join(p, '*'))
GlobStar(p) ==
    IF p = FilterDir
      THEN << << "/", "f", "/", "x", "_", "M", ".", "J", ".", "d", ".", "t" >> >>
    ELSE IF p = BadFilterDir
      THEN << << "/", "g", "/", "J", ".", "t" >> >>
    ELSE << >>

\* ----------------------------------------------------- the filter registry
\* svo filter names known to the registry
NameJ == << "J" >>
NameKs == << "K", "s" >>
NameH == << "H" >>
KnownFilters == { NameJ, NameKs, NameH }

\* ----------------------------------------------------------- return values
NoTable == [cols |-> << >>, rows |-> << >>]
Pending == [kind |-> "pending", exc |-> "", table |-> NoTable]
ReturnNone == [kind |-> "None", exc |-> "", table |-> NoTable]
ReturnTable(t) == [kind |-> "table", exc |-> "", table |-> t]
Raise(e) == [kind |-> "raise", exc |-> e, table |-> NoTable]

\* ------------------------------------------------------- decimal numbers
\* a real number m * 10^e; NaN is the not-a-number of numpy
Dec(m, e) == [nan |-> FALSE, m |-> m, e |-> e]
NaN == [nan |-> TRUE, m |-> 0, e |-> 0]

\* mantissa without trailing zeros, zero as 0 * 10^0
RECURSIVE Norm(_)
Norm(x) ==
    IF x.nan THEN NaN
    ELSE IF x.m = 0 THEN Dec(0, 0)
    ELSE IF x.m % 10 = 0 THEN Norm(Dec(x.m \div 10, x.e + 1))
    ELSE x

\* x * 10^k
Shift(x, k) == IF x.nan THEN NaN ELSE Norm(Dec(x.m, x.e + k))

\* IEEE product: NaN times anything is NaN
Mul(x, y) == IF x.nan \/ y.nan THEN NaN ELSE Norm(Dec(x.m * y.m, x.e + y.e))

ShiftAll(w, k) == [i \in 1..Len(w) |-> Shift(w[i], k)]

\* --------------------------------------------------------- astropy units
LengthUnits == { "AA", "nm", "um", "mm", "cm", "m" }
OtherUnits == { "s", "ms", "Hz", "Jy", "erg/s" }
NotUnits == { "str", "Quantity", "int" }
UnitArgs == LengthUnits \cup OtherUnits \cup NotUnits

\* the Python class of the object handed to the setter
UnitClass(u) ==
    CASE u \in { "nm", "um", "mm", "cm", "ms" } -> "PrefixUnit"
      [] u \in { "AA", "Hz", "Jy" } -> "Unit"
      [] u = "erg/s" -> "CompositeUnit"
      [] u \in { "m", "s" } -> "IrreducibleUnit"
      [] OTHER -> u

\* isinstance(u, (q.core.PrefixUnit, q.core.Unit, q.core.CompositeUnit));
\* PrefixUnit derives from Unit, IrreducibleUnit does not
IsUnitInstance(u) == UnitClass(u) \in { "PrefixUnit", "Unit", "CompositeUnit" }

\* u.to(q.um) succeeds exactly for units of length
ConvertibleToMicron(u) == u \in LengthUnits

\* size of a length unit as a power of ten of a metre
UnitPow(u) ==
    CASE u = "AA" -> -10
      [] u = "nm" -> -9
      [] u = "um" -> -6
      [] u = "mm" -> -3
      [] u = "cm" -> -2
      [] OTHER -> 0

\* a value held in unit u1 re-expressed in unit u2
ToUnit(x, u1, u2) == Shift(x, UnitPow(u1) - UnitPow(u2))

\* ------------------------------------------------------- svo_filters data
\* svo.Filter(name).rsr: wavelengths in micron and throughputs
RsrWave(name) ==
    CASE name = NameJ -> << Dec(11, -1), Dec(125, -2), Dec(14, -1) >>
      [] name = NameH -> << Dec(15, -1), Dec(165, -2), Dec(18, -1) >>
      [] name = NameKs -> << Dec(2, 0), Dec(215, -2), Dec(23, -1) >>
      [] OTHER -> << >>

RsrThru(name) ==
    CASE name = NameH -> << Dec(0, 0), Dec(9, -1), Dec(0, 0) >>
      [] OTHER -> << Dec(0, 0), Dec(8, -1), Dec(0, 0) >>

\* svo.Filter(name).ZeroPoint, in erg/s/cm2/AA
ZeroPoint(name) ==
    CASE name = NameJ -> Dec(313, -12)
      [] name = NameH -> Dec(113, -12)
      [] OTHER -> Dec(428, -13)

\* pysynphot's pivot wavelength of the curve, in Angstrom
Pivot(name) ==
    CASE name = NameJ -> Dec(1235, 1)
      [] name = NameH -> Dec(1662, 1)
      [] OTHER -> Dec(2159, 1)

\* ---------------------------------------------------------------- Bandpass
NoBandpass == [name |-> << >>, wave |-> << >>, throughput |-> << >>,
               eff |-> NaN, wave_units |-> "none"]

\* Bandpass.__init__ called with the positional arguments args: the
\* signature takes exactly one (name); an unknown name raises in svo.Filter
BandpassInit(args) ==
    IF Len(args) # 1 THEN [exc |-> "TypeError", obj |-> NoBandpass]
    ELSE IF args[1] \notin KnownFilters
      THEN [exc |-> "LookupError", obj |-> NoBandpass]
    ELSE [exc |-> "",
          obj |-> [name |-> args[1],
                   wave |-> ShiftAll(RsrWave(args[1]), 4),
                   throughput |-> RsrThru(args[1]),
                   eff |-> Pivot(args[1]),
                   wave_units |-> "AA"]]

\* the setter with the new unit recorded before it is validated
SetWaveUnitsStoreFirst(b, u) ==
    IF ~IsUnitInstance(u) \/ ~ConvertibleToMicron(u)
      THEN [exc |-> "TypeError", obj |-> [b EXCEPT !.wave_units = u]]
    ELSE [exc |-> "",
          obj |-> [b EXCEPT !.wave = ShiftAll(b.wave, UnitPow(b.wave_units) - UnitPow(u)),
                            !.eff = ToUnit(b.eff, b.wave_units, u),
                            !.wave_units = u]]

\* the wave_units setter applied to the bandpass b
SetWaveUnits(b, u) ==
    IF ~IsUnitInstance(u) THEN [exc |-> "TypeError", obj |-> b]
    ELSE IF ~ConvertibleToMicron(u) THEN [exc |-> "TypeError", obj |-> b]
    ELSE [exc |-> "",
          obj |-> [b EXCEPT !.wave = ShiftAll(b.wave, UnitPow(b.wave_units) - UnitPow(u)),
                            !.eff = ToUnit(b.eff, b.wave_units, u),
                            !.wave_units = u]]

\* ---------------------------------------------------------------- mag2flux
\* magnitudes are held times ten and are multiples of 2.5, so that
\* 10**(mag/-2.5) is a power of ten
FloatMag(v10) == [t |-> "float", v |-> v10, err |-> NaN]
IntMag(v10) == [t |-> "int", v |-> v10, err |-> NaN]
PairMag(v10, e) == [t |-> "pair", v |-> v10, err |-> e]
Tuple1Mag(v10) == [t |-> "tuple1", v |-> v10, err |-> NaN]

\* np.log(10), to four digits
Ln10 == Dec(2303, -3)

\* the factor of (zero point unit).to(units), as a power of ten; the zero
\* point is a flux density per wavelength and does not convert to Jy
FluxUnits == { "erg/s/cm2/AA", "W/m2/um", "Jy" }
FluxUnitPow(u) == IF u = "W/m2/um" THEN 1 ELSE 0
FluxConvertible(u) == u # "Jy"

NoFlux == [exc |-> "", f |-> NaN, sig_f |-> NaN]

mag2flux(mag, bandpass, units) ==
    LET m == IF mag.t = "float" THEN PairMag(mag.v, NaN) ELSE mag
    IN  IF ~FluxConvertible(units)
          THEN [exc |-> "UnitConversionError", f |-> NaN, sig_f |-> NaN]
        ELSE IF m.t = "int"
          THEN [exc |-> "TypeError", f |-> NaN, sig_f |-> NaN]
        ELSE IF m.t = "tuple1"
          THEN [exc |-> "IndexError", f |-> NaN, sig_f |-> NaN]
        ELSE LET zp == Shift(ZeroPoint(bandpass.name), FluxUnitPow(units))
                 f == Shift(zp, -(m.v \div 25))
                 sig_f == Mul(Mul(Mul(f, m.err), Ln10), Dec(4, -1))
             IN  [exc |-> "", f |-> f, sig_f |-> sig_f]

\* ------------------------------------------------------- the model grid
T1 == << 2000, -5, 45 >>
T2 == << 2500, 5, 50 >>
T3 == << 9000, 0, 50 >>
TripleSet == { T1, T2, T3 }

\* what the catalog does with a triple: no spectrum (ps.Icat raises), a
\* spectrum that cannot be renormalized, or a spectrum that can
Outcomes == { "nofetch", "nonorm", "ok" }

\* np.arange(start, stop, step) on integers
Arange(start, stop, step) ==
    [i \in 1..((stop - start + step - 1) \div step) |-> start + (i - 1) * step]

\* list(itertools.product(a, b, c))
Product3(a, b, c) ==
    [k \in 1..(Len(a) * Len(b) * Len(c)) |->
        << a[((k - 1) \div (Len(b) * Len(c))) + 1],
           b[(((k - 1) \div Len(c)) % Len(b)) + 1],
           c[((k - 1) % Len(c)) + 1] >>]

\* the grid used when spectra is None (feh and logg times ten)
DefaultGrid ==
    Product3(Arange(2000, 2550, 50), Arange(-5, 10, 5), Arange(45, 55, 5))

\* ---------------------------------------------------- mag_table arguments
NoSpectra == [none |-> TRUE, grid |-> << >>]
GivenSpectra(g) == [none |-> FALSE, grid |-> g]

Grids == UNION { [1..k -> TripleSet] : k \in 0..MaxGrid }

SpectraArgs == { NoSpectra } \cup { GivenSpectra(g) : g \in Grids }

StrItem(s) == [t |-> "str", v |-> [i \in 1..Len(s) |-> << s[i] >>]]
TupleItem(elts) == [t |-> "tuple", v |-> elts]

OtherArg == [kind |-> "other", s |-> << >>, items |-> << >>]
StrArg(p) == [kind |-> "str", s |-> p, items |-> << >>]
ListArg(items) == [kind |-> "list", s |-> << >>, items |-> items]
TupleArg(items) == [kind |-> "tuple", s |-> << >>, items |-> items]

MissingDir == << "/", "n" >>

BandpassArgs ==
    { OtherArg,
      StrArg(MissingDir), StrArg(RegularFile), StrArg(EmptyDir),
      StrArg(FilterDir), StrArg(BadFilterDir),
      ListArg(<< >>), TupleArg(<< >>),
      ListArg(<< StrItem(NameJ) >>),
      ListArg(<< StrItem(NameKs) >>),
      ListArg(<< TupleItem(<< NameJ, << "M" >> >>) >>) }

NoSave == [none |-> TRUE, path |-> << >>]
SavePath(p) == [none |-> FALSE, path |-> p]

SaveArgs ==
    { NoSave,
      SavePath(<< ".", "/", "m", ".", "t" >>),
      SavePath(<< "/", "d", "/", "m", ".", "t" >>),
      SavePath(<< "/", "d", "/", "m", ".", "c", "s", "v" >>),
      SavePath(<< "/", "d", "/", "m", ".", "a", ".", "t" >>),
      SavePath(<< "/", "n", "/", "m", ".", "t" >>),
      SavePath(<< "/", "d", "/", "m" >>),
      SavePath(<< "m", ".", "t" >>) }

\* ------------------------------------------------------ mag_table helpers
Teff == << "t", "e", "f", "f" >>
Feh == << "f", "e", "h" >>
Logg == << "l", "o", "g", "g" >>

Msg(kind, t) == [msg |-> kind, t |-> t]

NotWritten == [done |-> FALSE, path |-> << >>, table |-> NoTable]

\* (i.split('.')[-3], i.split('.')[-4].split('_')[-1]) for one file name;
\* a name with fewer than four dot-separated parts raises IndexError
ParseFile(i) ==
    LET parts == Split(i, ".")
        k == Len(parts)
    IN  IF k < 4 THEN [exc |-> "IndexError", item |-> TupleItem(<< >>)]
        ELSE LET inst == Split(parts[k - 3], "_")
             IN  [exc |-> "",
                  item |-> TupleItem(<< parts[k - 2], inst[Len(inst)] >>)]

\* the list comprehension over the globbed files
FilesToItems(files) ==
    IF \E i \in 1..Len(files) : ParseFile(files[i]).exc # ""
      THEN [exc |-> "IndexError", items |-> << >>]
    ELSE [exc |-> "", items |-> [i \in 1..Len(files) |-> ParseFile(files[i]).item]]

\* [Bandpass(filt, inst) for filt, inst in bandpasses]: every item is
\* unpacked into two names and Bandpass is called with both; the first
\* exception ends the comprehension
RECURSIVE ConstructAll(_)
ConstructAll(items) ==
    IF items = << >> THEN [exc |-> "", objs |-> << >>]
    ELSE LET it == Head(items)
         IN  IF Len(it.v) # 2 THEN [exc |-> "ValueError", objs |-> << >>]
             ELSE LET b == BandpassInit(<< it.v[1], it.v[2] >>)
                      rest == ConstructAll(Tail(items))
                  IN  IF b.exc # "" THEN [exc |-> b.exc, objs |-> << >>]
                      ELSE IF rest.exc # "" THEN rest
                      ELSE [exc |-> "", objs |-> << b.obj >> \o rest.objs]

\* the module neither defines nor imports synthetic_magnitude: the call
\* raises NameError
synthetic_magnitude(spectrum, b) == [exc |-> "NameError", mag |-> NaN]

\* lines 180-186 for one renormalized spectrum: the magnitudes of the
\* bandpasses in order, up to the first exception
RECURSIVE IntegrateAll(_, _)
IntegrateAll(spectrum, objs) ==
    IF objs = << >> THEN [exc |-> "", names |-> << >>, mags |-> << >>, calls |-> << >>]
    ELSE LET r == synthetic_magnitude(spectrum, Head(objs))
             call == << spectrum, Head(objs).name >>
         IN  IF r.exc # ""
               THEN [exc |-> r.exc, names |-> << >>, mags |-> << >>,
                     calls |-> << call >>]
             ELSE LET rest == IntegrateAll(spectrum, Tail(objs))
                  IN  [exc |-> rest.exc,
                       names |-> << Head(objs).name >> \o rest.names,
                       mags |-> << r.mag >> \o rest.mags,
                       calls |-> << call >> \o rest.calls]

\* the rows stacked last table first
RECURSIVE StackRowsReversed(_)
StackRowsReversed(ts) ==
    IF ts = << >> THEN << >> ELSE StackRowsReversed(Tail(ts)) \o Head(ts).rows

\* at.vstack of one-row tables with the same columns
RECURSIVE StackRows(_)
StackRows(ts) ==
    IF ts = << >> THEN << >> ELSE Head(ts).rows \o StackRows(Tail(ts))

Vstack(ts) == [cols |-> ts[1].cols, rows |-> StackRows(ts)]

\* the file name written for the save path p (lines 196-197)
CsvName(p) ==
    IF EndsWith(p, CsvExt) THEN p ELSE Split(p, ".")[1] \o CsvExt

\* the outcome of the catalog for a triple
Outcome(cat, t) == IF t \in DOMAIN cat THEN cat[t] ELSE "ok"

\* ------------------------------------------------------------------ state
VARIABLES
    pc,          \* position in mag_table
    spectra,     \* argument spectra
    bandpasses,  \* argument bandpasses
    save,        \* argument save
    catalog,     \* the model grid: outcome of fetch and renorm per triple
    jband,       \* TRUE once ps.ObsBandpass('j') is built
    grid,        \* the list of triples iterated
    bps,         \* the Bandpass objects built from bandpasses
    n,           \* index of the next triple
    tables,      \* the list of one-row tables
    mag_tbl,     \* the stacked table
    fetched,     \* triples handed to ps.Icat
    renormed,    \* triples whose spectrum was handed to renorm
    integrated,  \* calls of synthetic_magnitude
    printed,     \* what was printed
    written,     \* the file written
    ret,         \* how the call ended
    bp,          \* a Bandpass object
    setterArg,   \* argument of the last wave_units assignment
    setterExc,   \* exception of the last wave_units assignment
    fluxCall     \* a call of mag2flux and its result

vars == << pc, spectra, bandpasses, save, catalog, jband, grid, bps, n,
           tables, mag_tbl, fetched, renormed, integrated, printed, written,
           ret, bp, setterArg, setterExc, fluxCall >>

argVars == << spectra, bandpasses, save, catalog >>
objVars == << bp, setterArg, setterExc, fluxCall >>

NoCall == [done |-> FALSE, mag |-> FloatMag(0), name |-> << >>,
           units |-> "", out |-> NoFlux]

\* no mag_table call in progress
MagTableOff ==
    /\ pc = "off"
    /\ spectra = NoSpectra /\ bandpasses = OtherArg /\ save = NoSave
    /\ catalog = [t \in TripleSet |-> "ok"]
    /\ jband = FALSE /\ grid = << >> /\ bps = << >> /\ n = 0
    /\ tables = << >> /\ mag_tbl = NoTable
    /\ fetched = << >> /\ renormed = << >> /\ integrated = << >>
    /\ printed = << >> /\ written = NotWritten /\ ret = Pending

\* ------------------------------------------------------------- mag_table
\* a call of mag_table with its arguments and the collaborators' state
Init ==
    /\ pc = "call"
    /\ spectra \in SpectraArgs
    /\ bandpasses \in BandpassArgs
    /\ save \in SaveArgs
    /\ catalog \in [TripleSet -> Outcomes]
    /\ jband = FALSE /\ grid = << >> /\ bps = << >> /\ n = 0
    /\ tables = << >> /\ mag_tbl = NoTable
    /\ fetched = << >> /\ renormed = << >> /\ integrated = << >>
    /\ printed = << >> /\ written = NotWritten /\ ret = Pending
    /\ bp = NoBandpass /\ setterArg = "" /\ setterExc = ""
    /\ fluxCall = NoCall

\* lines 130-159: reference bandpass, grid, bandpass list
Setup ==
    /\ pc = "call"
    /\ jband' = TRUE
    /\ grid' = IF spectra.none THEN DefaultGrid ELSE spectra.grid
    /\ LET isDir == bandpasses.kind = "str" /\ PathExists(bandpasses.s)
           parsed == IF isDir THEN FilesToItems(GlobStar(bandpasses.s))
                     ELSE [exc |-> "", items |-> bandpasses.items]
           isList == isDir \/ bandpasses.kind \in { "list", "tuple" }
           made == ConstructAll(parsed.items)
       IN  IF parsed.exc # ""
             THEN /\ ret' = Raise(parsed.exc) /\ pc' = "done"
                  /\ UNCHANGED << bps, printed >>
           ELSE IF ~isList
             THEN /\ printed' = Append(printed, Msg("usage", << >>))
                  /\ ret' = ReturnNone /\ pc' = "done"
                  /\ UNCHANGED bps
           ELSE IF made.exc # ""
             THEN /\ ret' = Raise(made.exc) /\ pc' = "done"
                  /\ UNCHANGED << bps, printed >>
           ELSE /\ bps' = made.objs
                /\ printed' = Append(printed, Msg("calculating", << >>))
                /\ pc' = "loop"
                /\ UNCHANGED ret
    /\ n' = 1
    /\ UNCHANGED << tables, mag_tbl, fetched, renormed, integrated, written >>
    /\ UNCHANGED argVars /\ UNCHANGED objVars

\* lines 162-188 for the triple at index n
Iterate ==
    /\ pc = "loop"
    /\ n <= Len(grid)
    /\ LET t == grid[n]
           o == Outcome(catalog, t)
           row == IntegrateAll(t, bps)
       IN  /\ fetched' = Append(fetched, t)
           /\ IF o = "nofetch"
                THEN /\ ret' = Raise("ParameterOutOfBounds") /\ pc' = "done"
                     /\ UNCHANGED << n, tables, renormed, integrated, printed >>
              ELSE IF o = "nonorm"
                THEN /\ renormed' = Append(renormed, t)
                     /\ printed' = Append(printed, Msg("Error", t))
                     /\ n' = n + 1
                     /\ UNCHANGED << pc, ret, tables, integrated >>
              ELSE /\ renormed' = Append(renormed, t)
                   /\ printed' = Append(printed, Msg("ok", t))
                   /\ integrated' = integrated \o row.calls
                   /\ IF row.exc # ""
                        THEN /\ ret' = Raise(row.exc) /\ pc' = "done"
                             /\ UNCHANGED << n, tables >>
                        ELSE /\ tables' = Append(tables,
                                    [cols |-> << Teff, Feh, Logg >> \o row.names,
                                     rows |-> << t \o row.mags >>])
                             /\ n' = n + 1
                             /\ UNCHANGED << pc, ret >>
    /\ UNCHANGED << jband, grid, bps, mag_tbl, written >>
    /\ UNCHANGED argVars /\ UNCHANGED objVars

\* line 191: at.vstack raises on an empty list (TypeError in astropy up to
\* 3, ValueError from 4 on)
Stack ==
    /\ pc = "loop"
    /\ n > Len(grid)
    /\ IF tables = << >>
         THEN /\ \E e \in { "TypeError", "ValueError" } : ret' = Raise(e)
              /\ pc' = "done"
              /\ UNCHANGED mag_tbl
         ELSE /\ mag_tbl' = Vstack(tables)
              /\ pc' = "save"
              /\ UNCHANGED ret
    /\ UNCHANGED << jband, grid, bps, n, tables, fetched, renormed,
                    integrated, printed, written >>
    /\ UNCHANGED argVars /\ UNCHANGED objVars

\* lines 193-203: os.path.dirname(None) raises TypeError
SaveOrReturn ==
    /\ pc = "save"
    /\ IF save.none
         THEN /\ ret' = Raise("TypeError")
              /\ UNCHANGED written
       ELSE IF PathExists(Dirname(save.path)) /\ Contains(save.path, ".")
         THEN /\ written' = [done |-> TRUE, path |-> CsvName(save.path),
                             table |-> mag_tbl]
              /\ ret' = ReturnNone
       ELSE /\ ret' = ReturnTable(mag_tbl)
            /\ UNCHANGED written
    /\ pc' = "done"
    /\ UNCHANGED << jband, grid, bps, n, tables, mag_tbl, fetched, renormed,
                    integrated, printed >>
    /\ UNCHANGED argVars /\ UNCHANGED objVars

Next == Setup \/ Iterate \/ Stack \/ SaveOrReturn

Spec == Init /\ [][Next]_vars

\* ------------------------------------------------------ a Bandpass object
BandpassStart ==
    /\ MagTableOff
    /\ bp = NoBandpass /\ setterArg = "" /\ setterExc = ""
    /\ fluxCall = NoCall

magTableVars == << pc, jband, grid, bps, n, tables, mag_tbl, fetched,
                   renormed, integrated, printed, written, ret >>

\* bp = Bandpass(name)
Construct ==
    /\ bp = NoBandpass
    /\ \E name \in KnownFilters : bp' = BandpassInit(<< name >>).obj
    /\ UNCHANGED << setterArg, setterExc, fluxCall >>
    /\ UNCHANGED argVars /\ UNCHANGED magTableVars

\* bp.wave_units = u
AssignWaveUnits ==
    /\ bp # NoBandpass
    /\ \E u \in UnitArgs :
          /\ bp' = SetWaveUnits(bp, u).obj
          /\ setterArg' = u
          /\ setterExc' = SetWaveUnits(bp, u).exc
    /\ UNCHANGED fluxCall
    /\ UNCHANGED argVars /\ UNCHANGED magTableVars

BandpassNext == Construct \/ AssignWaveUnits

BandpassSpec == BandpassStart /\ [][BandpassNext]_vars

\* ------------------------------------------------------ calls of mag2flux
MagValues == { -25, 0, 25, 100 }
IntValues == { 0, 50, 100 }
MagErrors == { Dec(0, 0), Dec(1, -1), NaN }

MagArgs ==
    { FloatMag(v) : v \in MagValues } \cup { IntMag(v) : v \in IntValues }
    \cup { PairMag(v, e) : v \in MagValues, e \in MagErrors }
    \cup { Tuple1Mag(0) }

FluxStart ==
    /\ MagTableOff
    /\ bp = NoBandpass /\ setterArg = "" /\ setterExc = ""
    /\ fluxCall \in { [done |-> FALSE, mag |-> m, name |-> nm, units |-> u,
                       out |-> NoFlux] :
                      m \in MagArgs, nm \in KnownFilters, u \in FluxUnits }

\* out = mag2flux(mag, Bandpass(name), units)
CallMag2Flux ==
    /\ ~fluxCall.done
    /\ fluxCall' = [fluxCall EXCEPT
          !.done = TRUE,
          !.out = mag2flux(fluxCall.mag, BandpassInit(<< fluxCall.name >>).obj,
                           fluxCall.units)]
    /\ UNCHANGED << bp, setterArg, setterExc >>
    /\ UNCHANGED argVars /\ UNCHANGED magTableVars

FluxNext == CallMag2Flux

FluxSpec == FluxStart /\ [][FluxNext]_vars

\* ================================================================ claims
\* a bandpasses argument that is a list or tuple of known filter names
IsNameList(b) ==
    /\ b.kind \in { "list", "tuple" }
    /\ \A i \in 1..Len(b.items) :
          \E nm \in KnownFilters : b.items[i] = StrItem(nm)

NameOfItem(it) == CHOOSE nm \in KnownFilters : it = StrItem(nm)

NamesOf(b) == [i \in 1..Len(b.items) |-> NameOfItem(b.items[i])]

\* the triples of grid positions 1..k whose fetch and renorm both succeed
RECURSIVE Successes(_, _, _)
Successes(cat, g, k) ==
    IF k = 0 THEN << >>
    ELSE Successes(cat, g, k - 1)
           \o (IF Outcome(cat, g[k]) = "ok" THEN << g[k] >> ELSE << >>)

\* the (teff, feh, logg) part of every row
TriplesOf(rows) == [i \in 1..Len(rows) |-> SubSeq(rows[i], 1, 3)]

\* the file name (the part after the last '/') has an extension
HasExtension(p) == Contains(SubSeq(p, RFind1(p, "/") + 1, Len(p)), ".")

\* p with the extension of its file name replaced by .csv
WithCsvExtension(p) == SubSeq(p, 1, RFind1(p, ".") - 1) \o CsvExt

\* C1: a one-triple grid and a one-name bandpass list, the filter known and
\* the spectrum fetched and renormalized, return a table of exactly one row
\* with the columns teff, feh, logg and the bandpass name.
C1_SingleRowTable ==
    \A nm \in KnownFilters :
        ( /\ pc = "done"
          /\ ~spectra.none /\ Len(spectra.grid) = 1
          /\ bandpasses = ListArg(<< StrItem(nm) >>)
          /\ save.none
          /\ Outcome(catalog, spectra.grid[1]) = "ok" )
        => /\ ret.kind = "table"
           /\ Len(ret.table.rows) = 1
           /\ ret.table.cols = << Teff, Feh, Logg, nm >>

\* C2: with no integration failure, the rows accumulated and the table
\* stacked are exactly the triples whose renormalization succeeded, in grid
\* order; a normalization failure skips that triple only and every later
\* triple is still processed.
C2_RowsAreSuccessesInOrder ==
    /\ pc = "loop" =>
          /\ fetched = SubSeq(grid, 1, n - 1)
          /\ Len(tables) = Len(Successes(catalog, grid, n - 1))
          /\ [i \in 1..Len(tables) |-> SubSeq(tables[i].rows[1], 1, 3)]
                = Successes(catalog, grid, n - 1)
          /\ \A i \in 1..Len(tables) : Len(tables[i].rows) = 1
    /\ mag_tbl # NoTable =>
          /\ fetched = grid
          /\ TriplesOf(mag_tbl.rows) = Successes(catalog, grid, Len(grid))
    /\ ret.kind = "table" => ret.table = mag_tbl
    /\ written.done => written.table = mag_tbl

\* a run over three triples whose second renormalization failed and whose
\* first and third rows were returned
C2_Witness ==
    /\ pc = "done" /\ ret.kind = "table"
    /\ Len(grid) = 3 /\ grid[1] # grid[3]
    /\ Outcome(catalog, grid[1]) = "ok"
    /\ Outcome(catalog, grid[2]) = "nonorm"
    /\ Outcome(catalog, grid[3]) = "ok"
    /\ ret.table.rows = << grid[1], grid[3] >>
    /\ printed[3] = Msg("Error", grid[2])

\* C3: when renormalization fails for every triple and the bandpass list is
\* valid, the call does not raise and yields a table with zero rows and the
\* columns teff, feh, logg and the bandpass names.
C3_AllFailGivesEmptyTable ==
    ( /\ pc = "done"
      /\ IsNameList(bandpasses)
      /\ ~spectra.none /\ Len(spectra.grid) > 0
      /\ renormed = spectra.grid
      /\ \A i \in 1..Len(spectra.grid) :
            Outcome(catalog, spectra.grid[i]) = "nonorm" )
    => /\ ret.kind # "raise"
       /\ ret.kind = "table" \/ written.done
       /\ LET t == IF written.done THEN written.table ELSE ret.table
          IN  /\ t.rows = << >>
              /\ t.cols = << Teff, Feh, Logg >> \o NamesOf(bandpasses)

\* C4: a bandpasses argument that is neither a list/tuple nor a string
\* naming an existing directory prints the diagnostic and returns no table,
\* and nothing was constructed, fetched, normalized, integrated or written.
C4_InvalidSourceDoesNothing ==
    ( /\ pc = "done"
      /\ bandpasses.kind \notin { "list", "tuple" }
      /\ ~(bandpasses.kind = "str" /\ bandpasses.s \in Directories) )
    => /\ printed = << Msg("usage", << >>) >>
       /\ ret = ReturnNone
       /\ ~jband /\ bps = << >>
       /\ fetched = << >> /\ renormed = << >> /\ integrated = << >>
       /\ ~written.done

\* C5: for a run whose table was stacked, a save path with an existing
\* parent and an extension is written and nothing is returned; save=None
\* returns the table and writes nothing; never both written and returned.
C5_SaveXorReturn ==
    ( pc = "done" /\ mag_tbl # NoTable )
    => /\ ( /\ ~save.none
            /\ PathExists(Dirname(save.path))
            /\ HasExtension(save.path) )
          => (written.done /\ written.table = mag_tbl /\ ret = ReturnNone)
       /\ save.none => (ret = ReturnTable(mag_tbl) /\ ~written.done)
       /\ ~(written.done /\ ret.kind = "table")

C7_BareNumberGivesNaN ==
    ( fluxCall.done /\ FluxConvertible(fluxCall.units) )
    => /\ fluxCall.mag.t \in { "float", "int" }
          => (fluxCall.out.exc = "" /\ fluxCall.out.sig_f = NaN)
       /\ (fluxCall.mag.t = "pair" /\ fluxCall.mag.err = Dec(0, 0))
          => (fluxCall.out.exc = "" /\ fluxCall.out.sig_f = Dec(0, 0))

\* C9: a row exists only for a triple whose fetch and renormalization both
\* succeeded, and a failed fetch does not end the run with an error.
C9_FetchFailureSkips ==
    /\ \A i \in 1..Len(tables) :
          \E k \in 1..Len(grid) :
              /\ grid[k] = SubSeq(tables[i].rows[1], 1, 3)
              /\ Outcome(catalog, grid[k]) = "ok"
    /\ \A k \in 1..Len(fetched) :
          Outcome(catalog, fetched[k]) = "nofetch" =>
              ~(pc = "done" /\ ret.kind = "raise" /\ Len(fetched) = k)

\* C10: the file written is the save path with only the extension of its
\* file name replaced by .csv.
C10_CsvPath ==
    ( written.done /\ HasExtension(save.path) )
    => written.path = WithCsvExtension(save.path)

====
